---- MODULE Spec2Model ----
(***************************************************************************)
(* State-machine model of calorie_bot.py: the aiogram handlers of the      *)
(* profile-setup conversation, the daily ledger and the reports, over the  *)
(* MemoryStorage FSM (state tag and data per user) and user_database.      *)
(*                                                                         *)
(* Text is modelled as Python str: a tuple of Unicode code points, so that *)
(* lower(), strip(), split(), "in" and float() are computed on the         *)
(* characters.  Python floats are modelled as exact rationals num/den plus *)
(* nan and +-inf; every float the model parses is a short decimal, for     *)
(* which the comparisons and truncations below agree with IEEE doubles.    *)
(* The food total and the calories burned, where the rounding of a double  *)
(* decides the integer the ledger gets, are computed in binary64.          *)
(*                                                                         *)
(* A value a Python function binds once and reads several times is passed  *)
(* to a helper operator as a parameter.                                    *)
(***************************************************************************)
EXTENDS Integers, Sequences, FiniteSets, TLC

VARIABLES
    fsm_state,      \* MemoryStorage: user id -> state tag (NoState when None)
    fsm_data,       \* MemoryStorage: user id -> dict of the session
    user_database,  \* dict user id -> UserProfile
    food_cache,     \* lru_cache of search_food_calories: query -> result
    suspended,      \* per user and handler: the calls waiting in their last
                    \* await message.answer(...), with a statement still to run
    reply           \* what the last handler answered

vars == <<fsm_state, fsm_data, user_database, food_cache, suspended, reply>>

(***************************************************************************)
(* Python str                                                              *)
(***************************************************************************)

\* Code point of the one-character ASCII string c.
Ord(c) ==
    LET upper == "ABCDEFGHIJKLMNOPQRSTUVWXYZ"
        lower_ == "abcdefghijklmnopqrstuvwxyz"
        digits == "0123456789"
        punct == " +,-./"
        At(tab, base) == base + CHOOSE i \in 1..Len(tab) : SubSeq(tab, i, i) = c
        In(tab) == \E i \in 1..Len(tab) : SubSeq(tab, i, i) = c
    IN  CASE In(upper) -> At(upper, 64)
          [] In(lower_) -> At(lower_, 96)
          [] In(digits) -> At(digits, 47)
          [] In(punct) -> IF At(punct, 0) = 1 THEN 32 ELSE At(punct, 41)

\* The str whose characters are those of the ASCII string s.
U(s) == [i \in 1..Len(s) |-> Ord(SubSeq(s, i, i))]

\* str.lower() on one character: A-Z, the Cyrillic capitals and IO.
LowerChar(c) ==
    IF c \in 65..90 THEN c + 32
    ELSE IF c \in 1040..1071 THEN c + 32
    ELSE IF c = 1025 THEN 1105
    ELSE c

lower(t) == [i \in 1..Len(t) |-> LowerChar(t[i])]

IsSpace(c) == c \in {32, 9, 10, 11, 12, 13}

RECURSIVE lstrip(_)
lstrip(t) == IF t # <<>> /\ IsSpace(Head(t)) THEN lstrip(Tail(t)) ELSE t

RECURSIVE rstrip(_)
rstrip(t) ==
    IF t # <<>> /\ IsSpace(t[Len(t)]) THEN rstrip(SubSeq(t, 1, Len(t) - 1)) ELSE t

strip(t) == rstrip(lstrip(t))

\* sub in t
contains(sub, t) ==
    \E i \in 1..(Len(t) - Len(sub) + 1) : SubSeq(t, i, i + Len(sub) - 1) = sub

startswith(t, pre) == Len(t) >= Len(pre) /\ SubSeq(t, 1, Len(pre)) = pre

\* t.replace(",", ".")
replace_comma(t) == [i \in 1..Len(t) |-> IF t[i] = 44 THEN 46 ELSE t[i]]

\* Length of the longest prefix of t free of whitespace.
RECURSIVE WordLen(_)
WordLen(t) == IF t = <<>> \/ IsSpace(Head(t)) THEN 0 ELSE 1 + WordLen(Tail(t))

\* t.split(): the whitespace-separated words of t.
RECURSIVE split(_)
SplitAt(s, n) == <<SubSeq(s, 1, n)>> \o split(SubSeq(s, n + 1, Len(s)))
SplitWord(s) == IF s = <<>> THEN <<>> ELSE SplitAt(s, WordLen(s))
split(t) == SplitWord(lstrip(t))

\* t.split(maxsplit=1): the first word, then the rest after the whitespace.
Split1Rest(word, r) == IF r = <<>> THEN <<word>> ELSE <<word, r>>
Split1At(s, n) == Split1Rest(SubSeq(s, 1, n), lstrip(SubSeq(s, n + 1, Len(s))))
Split1Word(s) == IF s = <<>> THEN <<>> ELSE Split1At(s, WordLen(s))
split1(t) == Split1Word(lstrip(t))

(***************************************************************************)
(* Python numbers: None, int and float                                     *)
(***************************************************************************)

None == [k |-> "none", num |-> 0, den |-> 1]
PyInt(n) == [k |-> "int", num |-> n, den |-> 1]

RECURSIVE GCD(_, _)
GCD(a, b) == IF b = 0 THEN a ELSE GCD(b, a % b)

Reduced(n, d, g) == [k |-> "float", num |-> n \div g, den |-> d \div g]

\* The float n/d (d > 0), in lowest terms so that equal floats are equal.
PyFloat(n, d) == Reduced(n, d, GCD(IF n < 0 THEN -n ELSE n, d))

IsFinite(v) == v.k \in {"float", "int"}

\* bool(v): None, 0 and 0.0 are false; nan and inf are true.
truthy(v) ==
    CASE v.k = "none" -> FALSE
      [] IsFinite(v) -> v.num # 0
      [] OTHER -> TRUE

\* v < n, v > n and v <= n for an int n; every comparison with nan is False.
lt(v, n) ==
    CASE IsFinite(v) -> v.num < n * v.den
      [] v.k = "inf" -> v.num < 0
      [] OTHER -> FALSE

gt(v, n) ==
    CASE IsFinite(v) -> v.num > n * v.den
      [] v.k = "inf" -> v.num > 0
      [] OTHER -> FALSE

le(v, n) ==
    CASE IsFinite(v) -> v.num <= n * v.den
      [] v.k = "inf" -> v.num < 0
      [] OTHER -> FALSE

\* Truncation toward zero of n/d, d > 0.
Trunc(n, d) == IF n >= 0 THEN n \div d ELSE -((-n) \div d)

RECURSIVE Pow10(_)
Pow10(n) == IF n = 0 THEN 1 ELSE 10 * Pow10(n - 1)

AllDigits(t) == \A i \in 1..Len(t) : t[i] \in 48..57

RECURSIVE DigitsValue(_)
DigitsValue(t) ==
    IF t = <<>> THEN 0
    ELSE 10 * DigitsValue(SubSeq(t, 1, Len(t) - 1)) + (t[Len(t)] - 48)

\* Index of the first c in t, 0 when there is none.
Find(t, c) ==
    IF \E i \in 1..Len(t) : t[i] = c
    THEN CHOOSE i \in 1..Len(t) : t[i] = c /\ \A j \in 1..(i - 1) : t[j] # c
    ELSE 0

\* t before and after position p; all of t and nothing when p = 0.
Before(t, p) == IF p = 0 THEN t ELSE SubSeq(t, 1, p - 1)
After(t, p) == IF p = 0 THEN <<>> ELSE SubSeq(t, p + 1, Len(t))

\* A decimal mantissa: digits[.digits] or .digits, as a float; None otherwise.
MantissaParts(ip, fp) ==
    IF AllDigits(ip) /\ AllDigits(fp) /\ Len(ip) + Len(fp) > 0
    THEN PyFloat(DigitsValue(ip \o fp), Pow10(Len(fp)))
    ELSE None

MantissaAt(t, p) == MantissaParts(Before(t, p), After(t, p))

Mantissa(t) == MantissaAt(t, Find(t, 46))

\* A decimal exponent: [sign]digits, as an int; None otherwise.
ExponentDigits(neg, d) ==
    IF d # <<>> /\ AllDigits(d)
    THEN PyInt(IF neg THEN -DigitsValue(d) ELSE DigitsValue(d))
    ELSE None

Signless(t) == IF t # <<>> /\ Head(t) \in {43, 45} THEN Tail(t) ELSE t

IsNegative(t) == t # <<>> /\ Head(t) = 45

Exponent(t) == ExponentDigits(IsNegative(t), Signless(t))

Literals == [inf |-> {U("inf"), U("infinity")}, nan |-> U("nan")]

\* An unsigned float literal, lower-cased: inf, infinity, nan, or
\* mantissa[e exponent].
Scaled(t, m, e) ==
    IF t \in Literals.inf THEN [k |-> "inf", num |-> 1, den |-> 1]
    ELSE IF t = Literals.nan THEN [k |-> "nan", num |-> 0, den |-> 1]
    ELSE IF m = None \/ e = None THEN None
    ELSE IF e.num >= 0 THEN PyFloat(m.num * Pow10(e.num), m.den)
    ELSE PyFloat(m.num, m.den * Pow10(-e.num))

UnsignedAt(t, p) ==
    Scaled(t, Mantissa(Before(t, p)), IF p = 0 THEN PyInt(0) ELSE Exponent(After(t, p)))

Unsigned(t) == UnsignedAt(t, Find(t, 101))

Negated(neg, v) ==
    IF neg /\ v.k \in {"float", "inf"} THEN [v EXCEPT !.num = -v.num] ELSE v

Signed(s) == Negated(IsNegative(s), Unsigned(Signless(s)))

\* float(text): None stands for ValueError.
float(text) == Signed(lower(strip(text)))

\* int(v) raises ValueError on nan and OverflowError on inf.
Converted(v, allow_float) ==
    IF v = None THEN None
    ELSE IF allow_float THEN v
    ELSE IF IsFinite(v) THEN PyInt(Trunc(v.num, v.den))
    ELSE None

\* parse_number(text, allow_float): a bare except turns every error into None.
parse_number(text, allow_float) ==
    Converted(float(strip(replace_comma(text))), allow_float)

(***************************************************************************)
(* Bounds and environment                                                  *)
(***************************************************************************)

\* Ledger events are accepted while the timeline they append to is shorter.
MaxTimeline == 3

\* A workout is accepted while the water target stays within this many ml of
\* the norm the profile was set up with (/reset keeps the raised target).
MaxBonus == 400

\* A handler is suspended in its last answer while fewer calls of the user
\* are suspended already.
MaxSuspended == 2

Users == {1}

\* Labels current_time() can return.
Times == {"12:00"}

\* Outcomes of fetch_weather: None (no 200 answer, an exception, an unknown
\* city) or the temperature of the answer.
Temperatures == {None, PyFloat(30, 1)}

(***************************************************************************)
(* Metric formulas                                                         *)
(***************************************************************************)

\* A faulty calculate_water_norm that leaves the base amount out.
calculate_water_norm_bonus_only(weight, activity, temp) ==
    PyInt((activity \div 30) * 500
              + (IF truthy(temp) /\ gt(temp, 25) THEN 500 ELSE 0))

\* int(base_amount + activity_bonus + heat_bonus); None stands for the
\* ValueError of int(nan).
WaterNorm(weight, bonus) ==
    IF IsFinite(weight)
    THEN PyInt(Trunc(weight.num * 30 + bonus * weight.den, weight.den))
    ELSE None

calculate_water_norm(weight, activity, temp) ==
    WaterNorm(weight,
              (activity \div 30) * 500
                  + (IF truthy(temp) /\ gt(temp, 25) THEN 500 ELSE 0))

\* A faulty coefficient whose middle band starts above 30 minutes.
MultiplierAbove30(activity) ==
    IF activity >= 60 THEN 1550 ELSE IF activity > 30 THEN 1375 ELSE 1200

\* The activity coefficient in thousandths: 1.55, 1.375 or 1.2.
Multiplier(activity) ==
    IF activity >= 60 THEN 1550 ELSE IF activity >= 30 THEN 1375 ELSE 1200

\* calculate_calorie_norm; manual is None or an int; None stands for the
\* ValueError of int(nan).  bmr is taken in hundredths over weight.den.
calculate_calorie_norm(weight, height, age, gender, activity, manual) ==
    IF truthy(manual) THEN manual
    ELSE IF IsFinite(weight)
    THEN PyInt(Trunc((1000 * weight.num
                        + (625 * height - 500 * age
                             + 100 * (IF gender = "male" THEN 5 ELSE -161))
                            * weight.den)
                         * Multiplier(activity),
                     100 * weight.den * 1000))
    ELSE None

(***************************************************************************)
(* UserProfile and the FSM storage                                         *)
(***************************************************************************)

NoState == "None"

SetupStates ==
    <<"weight_input", "height_input", "age_input", "gender_input",
      "activity_input", "city_input", "manual_calories_choice",
      "manual_calories_input">>

WaitingGrams == "waiting_grams"

EmptyDict == <<>>

\* dict.update
update_data(d, kv) ==
    [key \in DOMAIN d \cup DOMAIN kv |-> IF key \in DOMAIN kv THEN kv[key] ELSE d[key]]

\* db[key] = value
Store(db, key, value) ==
    [x \in DOMAIN db \cup {key} |-> IF x = key THEN value ELSE db[x]]

HasProfile(u) == u \in DOMAIN user_database

\* A faulty init_timeline that seeds nothing.
init_timeline_unseeded(profile, now) == profile

\* init_timeline: seed every empty timeline with (now, 0).
init_timeline(profile, now) ==
    [profile EXCEPT
        !.water_timeline = IF @ = <<>> THEN <<<<now, 0>>>> ELSE @,
        !.calorie_timeline = IF @ = <<>> THEN <<<<now, 0>>>> ELSE @,
        !.workout_timeline = IF @ = <<>> THEN <<<<now, 0>>>> ELSE @]

\* UserProfile(...) from the session data, with the dataclass defaults.
UserProfile(data, temp, water, calories) ==
    [weight |-> data["weight"], height |-> data["height"], age |-> data["age"],
     gender |-> data["gender"], activity_minutes |-> data["activity"],
     city |-> data["city"], temperature |-> temp,
     water_consumed |-> 0, calories_eaten |-> 0, calories_burned |-> 0,
     water_target |-> water, calorie_target |-> calories,
     water_timeline |-> <<>>, calorie_timeline |-> <<>>, workout_timeline |-> <<>>]

Reply(kind) == [kind |-> kind, detail |-> <<>>]

ReplyWith(kind, detail) == [kind |-> kind, detail |-> detail]

\* The handler raised: aiogram logs the error, nothing is answered.
Raised == Reply("exception")

Slash == U("/")

\* The registered commands.
Cmd ==
    [start |-> U("start"), help |-> U("help"), setup |-> U("setup"),
     cancel |-> U("cancel"), drink |-> U("drink"), eat |-> U("eat"),
     train |-> U("train"), status |-> U("status"), charts |-> U("charts"),
     tips |-> U("tips"), reset |-> U("reset")]

FirstWordIs(parts, word) == parts # <<>> /\ parts[1] = word

\* The Command filter: the first word of the text is /name.
IsCommand(text, name) == FirstWordIs(split1(text), Slash \o Cmd[name])

\* The filter ~F.text.startswith("/").
NotCommand(text) == ~startswith(text, Slash)

\* state.clear()
Clear(u) ==
    /\ fsm_state' = [fsm_state EXCEPT ![u] = NoState]
    /\ fsm_data' = [fsm_data EXCEPT ![u] = EmptyDict]

\* A handler that answers r and touches no state.
Answer(r) ==
    /\ reply' = r
    /\ UNCHANGED <<fsm_state, fsm_data, user_database, food_cache, suspended>>

\* A validated setup step: the field is stored and the next state is set.
Advance(u, kv, next, kind) ==
    /\ fsm_data' = [fsm_data EXCEPT ![u] = update_data(@, kv)]
    /\ fsm_state' = [fsm_state EXCEPT ![u] = next]
    /\ reply' = Reply(kind)
    /\ UNCHANGED <<user_database, food_cache, suspended>>

(***************************************************************************)
(* Setup conversation                                                      *)
(***************************************************************************)

cmd_start(u, text) ==
    /\ IsCommand(text, "start") \/ IsCommand(text, "help")
    /\ Answer(Reply("welcome"))

\* A faulty cmd_setup that sets the state without state.clear().
cmd_setup_keeps_data(u, text) ==
    /\ IsCommand(text, "setup")
    /\ fsm_state' = [fsm_state EXCEPT ![u] = "weight_input"]
    /\ reply' = Reply("ask_weight")
    /\ UNCHANGED <<fsm_data, user_database, food_cache, suspended>>

cmd_setup(u, text) ==
    /\ IsCommand(text, "setup")
    /\ fsm_data' = [fsm_data EXCEPT ![u] = EmptyDict]
    /\ fsm_state' = [fsm_state EXCEPT ![u] = "weight_input"]
    /\ reply' = Reply("ask_weight")
    /\ UNCHANGED <<user_database, food_cache, suspended>>

\* not weight or weight < 30 or weight > 300
WeightStep(u, weight) ==
    IF ~truthy(weight) \/ lt(weight, 30) \/ gt(weight, 300)
    THEN Answer(Reply("weight_invalid"))
    ELSE Advance(u, [weight |-> weight], "height_input", "ask_height")

process_weight(u, text) ==
    /\ fsm_state[u] = "weight_input"
    /\ NotCommand(text)
    /\ WeightStep(u, parse_number(text, TRUE))

HeightRejected(height) == ~truthy(height) \/ lt(height, 100) \/ gt(height, 250)

\* A faulty height step that sets gender_input, passing the age step over.
HeightStepSkipsAge(u, height) ==
    IF HeightRejected(height)
    THEN Answer(Reply("height_invalid"))
    ELSE Advance(u, [height |-> height.num], "gender_input", "ask_gender")

HeightStep(u, height) ==
    IF HeightRejected(height)
    THEN Answer(Reply("height_invalid"))
    ELSE Advance(u, [height |-> height.num], "age_input", "ask_age")

process_height(u, text) ==
    /\ fsm_state[u] = "height_input"
    /\ NotCommand(text)
    /\ HeightStep(u, parse_number(text, FALSE))

AgeStep(u, age) ==
    IF ~truthy(age) \/ lt(age, 10) \/ gt(age, 100)
    THEN Answer(Reply("age_invalid"))
    ELSE Advance(u, [age |-> age.num], "gender_input", "ask_gender")

process_age(u, text) ==
    /\ fsm_state[u] = "age_input"
    /\ NotCommand(text)
    /\ AgeStep(u, parse_number(text, FALSE))

\* The keywords of process_gender and process_manual_choice: муж, male;
\* жен, female; да, yes; нет, no.
Keywords ==
    [male |-> {<<1084, 1091, 1078>>, U("male")},
     female |-> {<<1078, 1077, 1085>>, U("female")},
     yes |-> {<<1076, 1072>>, U("yes")},
     no |-> {<<1085, 1077, 1090>>, U("no")}]

\* "a" in t or "b" in t
AnyIn(keywords, t) == \E kw \in keywords : contains(kw, t)

GenderRead(gender_text) ==
    IF AnyIn(Keywords.male, gender_text) THEN "male"
    ELSE IF AnyIn(Keywords.female, gender_text) THEN "female"
    ELSE ""

GenderStep(u, gender) ==
    IF gender = ""
    THEN Answer(Reply("gender_invalid"))
    ELSE Advance(u, [gender |-> gender], "activity_input", "ask_activity")

process_gender(u, text) ==
    /\ fsm_state[u] = "gender_input"
    /\ NotCommand(text)
    /\ GenderStep(u, GenderRead(lower(strip(text))))

\* activity is None or activity < 0 or activity > 500
ActivityStep(u, activity) ==
    IF activity = None \/ lt(activity, 0) \/ gt(activity, 500)
    THEN Answer(Reply("activity_invalid"))
    ELSE Advance(u, [activity |-> activity.num], "city_input", "ask_city")

process_activity(u, text) ==
    /\ fsm_state[u] = "activity_input"
    /\ NotCommand(text)
    /\ ActivityStep(u, parse_number(text, FALSE))

CityStep(u, city) ==
    IF Len(city) < 2
    THEN Answer(Reply("city_invalid"))
    ELSE Advance(u, [city |-> city], "manual_calories_choice", "ask_manual_choice")

process_city(u, text) ==
    /\ fsm_state[u] = "city_input"
    /\ NotCommand(text)
    /\ CityStep(u, strip(text))

ChoiceRead(answer) ==
    IF AnyIn(Keywords.yes, answer) THEN "yes"
    ELSE IF AnyIn(Keywords.no, answer) THEN "no"
    ELSE ""

SetupFields == {"weight", "height", "age", "gender", "activity", "city"}

\* The end of finalize_profile: the profile is stored, the session cleared.
Install(u, data, temp, water_norm, calorie_norm, now) ==
    IF water_norm = None \/ calorie_norm = None
    THEN Answer(Raised)
    ELSE /\ user_database' =
               Store(user_database, u,
                     init_timeline(UserProfile(data, temp, water_norm.num,
                                               calorie_norm.num), now))
         /\ reply' = ReplyWith("profile_ready", <<water_norm.num, calorie_norm.num>>)
         /\ Clear(u)
         /\ UNCHANGED <<food_cache, suspended>>

Finalize(u, data, manual_calories, temp, now) ==
    IF ~(SetupFields \subseteq DOMAIN data)
    THEN Answer(Raised)
    ELSE Install(u, data, temp,
                 calculate_water_norm(data["weight"], data["activity"], temp),
                 calculate_calorie_norm(data["weight"], data["height"], data["age"],
                                        data["gender"], data["activity"],
                                        manual_calories),
                 now)

\* finalize_profile: a missing field (KeyError) or a nan weight (ValueError
\* in calculate_water_norm) ends the handler before anything is stored.
finalize_profile(u, manual_calories, temp, now) ==
    Finalize(u, fsm_data[u], manual_calories, temp, now)

ChoiceStep(u, answer, temp, now) ==
    IF answer = "yes"
    THEN /\ fsm_state' = [fsm_state EXCEPT ![u] = "manual_calories_input"]
         /\ reply' = Reply("ask_manual_calories")
         /\ UNCHANGED <<fsm_data, user_database, food_cache, suspended>>
    ELSE IF answer = "no"
    THEN finalize_profile(u, None, temp, now)
    ELSE Answer(Reply("choice_invalid"))

process_manual_choice(u, text, temp, now) ==
    /\ fsm_state[u] = "manual_calories_choice"
    /\ NotCommand(text)
    /\ ChoiceStep(u, ChoiceRead(lower(strip(text))), temp, now)

CaloriesStep(u, calories, temp, now) ==
    IF ~truthy(calories) \/ lt(calories, 1000) \/ gt(calories, 5000)
    THEN Answer(Reply("calories_invalid"))
    ELSE finalize_profile(u, calories, temp, now)

process_manual_calories(u, text, temp, now) ==
    /\ fsm_state[u] = "manual_calories_input"
    /\ NotCommand(text)
    /\ CaloriesStep(u, parse_number(text, FALSE), temp, now)

\* A faulty cmd_cancel that resets the state and keeps the data.
cmd_cancel_keeps_data(u, text) ==
    /\ IsCommand(text, "cancel")
    /\ IF fsm_state[u] = NoState
       THEN Answer(Reply("nothing_to_cancel"))
       ELSE /\ fsm_state' = [fsm_state EXCEPT ![u] = NoState]
            /\ reply' = Reply("cancelled")
            /\ UNCHANGED <<fsm_data, user_database, food_cache, suspended>>

cmd_cancel(u, text) ==
    /\ IsCommand(text, "cancel")
    /\ IF fsm_state[u] = NoState
       THEN Answer(Reply("nothing_to_cancel"))
       ELSE /\ Clear(u)
            /\ reply' = Reply("cancelled")
            /\ UNCHANGED <<user_database, food_cache, suspended>>

(***************************************************************************)
(* Food lookup                                                             *)
(***************************************************************************)

\* One product of the search answer: its name ("" when absent) and the
\* nutriments energy-kcal_100g and energy_100g (None when absent).
Product(name, kcal, kj) == [product_name |-> name, kcal |-> kcal, kj |-> kj]

\* The outcome of requests.get: a status code (0: the request raised) and
\* the products of the JSON body.
Response(status, products) == [status |-> status, products |-> products]

\* The tuple (name, kcal) search_food_calories returns.
Food(name, kcal) == [product_name |-> name, kcal_per_100g |-> kcal]

\* product.get("product_name") or query
NameOr(name, query) == IF name = <<>> THEN query ELSE name

RECURSIVE FirstProduct(_, _)
\* The loop over the products: the first one with a truthy energy value.
FirstProduct(products, query) ==
    IF products = <<>> THEN None
    ELSE IF truthy(Head(products).kcal)
    THEN Food(NameOr(Head(products).product_name, query),
              PyFloat(Head(products).kcal.num, Head(products).kcal.den))
    ELSE IF truthy(Head(products).kj)
    THEN Food(NameOr(Head(products).product_name, query),
              PyFloat(Head(products).kj.num * 1000, Head(products).kj.den * 4184))
    ELSE FirstProduct(Tail(products), query)

\* The body of search_food_calories, given the outcome of the request.
search_food_calories(query, response) ==
    IF response.status # 200 THEN None ELSE FirstProduct(response.products, query)

\* lru_cache: a cached query returns the cached result, whatever it was.
Cached(query, response) ==
    IF query \in DOMAIN food_cache
    THEN food_cache[query]
    ELSE search_food_calories(query, response)

FoodResponses ==
    {Response(0, <<>>),
     Response(200, <<>>),
     Response(200, <<Product(U("Banana"), PyFloat(89, 1), None)>>)}

(***************************************************************************)
(* IEEE-754 binary64 arithmetic of the food total and the calories burned  *)
(*                                                                         *)
(* A positive double is [limbs, exp]: limbs spells an integer of at most   *)
(* 53 bits in base 2^14, most significant limb first, and the value is     *)
(* that integer times 2^exp.  Every operation rounds to nearest, ties to   *)
(* even, as the float of CPython does.                                     *)
(***************************************************************************)
Base == 2 ^ 14

RECURSIVE BitLength(_)
BitLength(n) ==
    IF n = 0 THEN 0 ELSE 1 + BitLength(n \div 2)

RECURSIVE Limbs(_)
Limbs(n) ==
    IF n = 0 THEN <<>> ELSE Append(Limbs(n \div Base), n % Base)

Bits(limbs) ==
    IF limbs = <<>> THEN 0
    ELSE 14 * (Len(limbs) - 1) + BitLength(limbs[1])

RECURSIVE MulSmall(_, _, _)
MulSmall(limbs, factor, carry) ==
    IF limbs = <<>> THEN Limbs(carry)
    ELSE Append(MulSmall(SubSeq(limbs, 1, Len(limbs) - 1), factor,
                         (limbs[Len(limbs)] * factor + carry) \div Base),
                (limbs[Len(limbs)] * factor + carry) % Base)

RECURSIVE DivSmall(_, _, _, _)
DivSmall(todo, divisor, rest, limbs) ==
    IF todo = <<>> THEN [limbs |-> limbs, rest |-> rest]
    ELSE DivSmall(Tail(todo), divisor,
                  (rest * Base + Head(todo)) % divisor,
                  IF limbs = <<>> /\ rest * Base + Head(todo) < divisor
                  THEN <<>>
                  ELSE Append(limbs, (rest * Base + Head(todo)) \div divisor))

Nearest(quotient, half, exp) ==
    [limbs |-> IF \/ quotient.rest > half
                  \/ quotient.rest = half /\ quotient.limbs[Len(quotient.limbs)] % 2 = 1
               THEN MulSmall(quotient.limbs, 1, 1)
               ELSE quotient.limbs,
     exp |-> exp]

Rounded(limbs, exp, excess) ==
    IF excess <= 0 THEN [limbs |-> limbs, exp |-> exp]
    ELSE Nearest(DivSmall(limbs, 2 ^ excess, 0, <<>>), 2 ^ (excess - 1), exp + excess)

Sticky(quotient, exp) ==
    Rounded(IF quotient.rest # 0 /\ quotient.limbs[Len(quotient.limbs)] % 2 = 0
            THEN [quotient.limbs EXCEPT ![Len(quotient.limbs)] = @ + 1]
            ELSE quotient.limbs,
            exp,
            Bits(quotient.limbs) - 53)

\* x / divisor: the quotient is taken with at least two bits beyond the 53
\* kept and the remainder folded into its last bit.
Divided(x, divisor) ==
    Sticky(DivSmall(x.limbs \o [i \in 1 .. (68 + BitLength(divisor) - Bits(x.limbs)) \div 14 |-> 0],
                    divisor, 0, <<>>),
           x.exp - 14 * ((68 + BitLength(divisor) - Bits(x.limbs)) \div 14))

\* x * factor, for an int factor that is itself a double.
Multiplied(x, factor) ==
    Rounded(MulSmall(x.limbs, factor, 0), x.exp,
            Bits(MulSmall(x.limbs, factor, 0)) - 53)

\* The double nearest to num/den: what float() and the JSON decoder make of
\* a decimal literal.
DoubleOf(num, den) == Divided([limbs |-> Limbs(num), exp |-> 0], den)

\* int(x) for a positive double: the integer part of limbs * 2^exp.
RECURSIVE Truncated(_, _)
Truncated(limbs, exp) ==
    IF limbs = <<>> THEN 0
    ELSE Truncated(SubSeq(limbs, 1, Len(limbs) - 1), exp + 14)
         + (IF exp >= 0 THEN limbs[Len(limbs)] * 2 ^ exp
            ELSE IF exp <= -14 THEN 0
            ELSE limbs[Len(limbs)] \div 2 ^ (-exp))

\* limbs * factor + addend + carry, the two numbers aligned at their last limb.
RECURSIVE MulAdd(_, _, _, _)
MulAdd(limbs, factor, addend, carry) ==
    IF limbs = <<>> /\ addend = <<>> THEN Limbs(carry)
    ELSE Append(MulAdd(IF limbs = <<>> THEN <<>> ELSE SubSeq(limbs, 1, Len(limbs) - 1),
                       factor,
                       IF addend = <<>> THEN <<>> ELSE SubSeq(addend, 1, Len(addend) - 1),
                       ((IF limbs = <<>> THEN 0 ELSE limbs[Len(limbs)] * factor)
                            + (IF addend = <<>> THEN 0 ELSE addend[Len(addend)])
                            + carry) \div Base),
                ((IF limbs = <<>> THEN 0 ELSE limbs[Len(limbs)] * factor)
                     + (IF addend = <<>> THEN 0 ELSE addend[Len(addend)])
                     + carry) % Base)

\* The product of two limb numbers, one limb of the second at a time.
RECURSIVE LongMul(_, _, _)
LongMul(limbs, todo, product) ==
    IF todo = <<>> THEN product
    ELSE LongMul(limbs, Tail(todo), MulAdd(limbs, Head(todo), Append(product, 0), 0))

\* limbs * 2^exp rounded to a double: the low limbs beyond 55 bits are
\* dropped and folded into the last bit kept.
Narrowed(limbs, exp, drop) ==
    Sticky([limbs |-> SubSeq(limbs, 1, Len(limbs) - drop),
            rest |-> IF \E i \in Len(limbs) - drop + 1 .. Len(limbs) : limbs[i] # 0
                     THEN 1 ELSE 0],
           exp + 14 * drop)

\* x * y of two doubles.
Mul(x, y) ==
    Narrowed(LongMul(x.limbs, y.limbs, <<>>), x.exp + y.exp,
             IF Bits(x.limbs) + Bits(y.limbs) > 68
             THEN (Bits(x.limbs) + Bits(y.limbs) - 56) \div 14
             ELSE 0)

\* int(x) for a positive double.
Whole(x) == Truncated(x.limbs, x.exp)

\* total_kcal = (kcal_per_100g * grams) / 100.0, for kcal_per_100g = num/den > 0
total_kcal(num, den, grams) ==
    Divided(Multiplied(DoubleOf(num, den), grams), 100)

\* int(total_kcal): truncation toward zero, of either sign.
int_total_kcal(kcal, grams) ==
    IF kcal.num = 0 THEN 0
    ELSE IF kcal.num < 0
    THEN -Truncated(total_kcal(-kcal.num, kcal.den, grams).limbs,
                    total_kcal(-kcal.num, kcal.den, grams).exp)
    ELSE Truncated(total_kcal(kcal.num, kcal.den, grams).limbs,
                   total_kcal(kcal.num, kcal.den, grams).exp)

(***************************************************************************)
(* Ledger                                                                  *)
(***************************************************************************)

\* A guard that sends the user to the grams step instead of refusing.
RequireProfileAwaitsGrams ==
    /\ reply' = Reply("require_profile")
    /\ fsm_state' = [u \in Users |-> WaitingGrams]
    /\ UNCHANGED <<fsm_data, user_database, food_cache, suspended>>

RequireProfile == Answer(Reply("require_profile"))

\* not amount or amount <= 0 or amount > 3000
AmountRejected(amount) == ~truthy(amount) \/ le(amount, 0) \/ gt(amount, 3000)

\* A faulty record that appends the amount drunk, not the running total.
DrinkRecordDelta(u, amount, total, now) ==
    /\ Len(user_database[u].water_timeline) < MaxTimeline
    /\ user_database' =
           [user_database EXCEPT ![u].water_consumed = total,
                                 ![u].water_timeline = Append(@, <<now, amount>>)]
    /\ reply' = ReplyWith("drink_added", <<amount>>)
    /\ UNCHANGED <<fsm_state, fsm_data, food_cache, suspended>>

DrinkRecord(u, amount, total, now) ==
    /\ Len(user_database[u].water_timeline) < MaxTimeline
    /\ user_database' =
           [user_database EXCEPT ![u].water_consumed = total,
                                 ![u].water_timeline = Append(@, <<now, total>>)]
    /\ reply' = IF user_database[u].water_target = 0
                THEN Raised
                ELSE ReplyWith("drink_added", <<amount>>)
    /\ UNCHANGED <<fsm_state, fsm_data, food_cache, suspended>>

\* A faulty /drink that sets the water consumed to the amount.
DrinkAmountOverwrites(u, amount, now) ==
    IF AmountRejected(amount)
    THEN Answer(Reply("drink_invalid"))
    ELSE DrinkRecord(u, amount.num, amount.num, now)

DrinkAmount(u, amount, now) ==
    IF AmountRejected(amount)
    THEN Answer(Reply("drink_invalid"))
    ELSE DrinkRecord(u, amount.num, user_database[u].water_consumed + amount.num, now)

DrinkParts(u, parts, now) ==
    IF ~HasProfile(u) THEN RequireProfile
    ELSE IF Len(parts) < 2 THEN Answer(Reply("drink_usage"))
    ELSE DrinkAmount(u, parse_number(parts[2], FALSE), now)

cmd_drink(u, text, now) ==
    /\ IsCommand(text, "drink")
    /\ DrinkParts(u, split(text), now)

\* A faulty /eat that asks for the grams and stores no entry.
EatResultWithoutEntry(u, product_query, result) ==
    /\ food_cache' = Store(food_cache, product_query, result)
    /\ UNCHANGED <<user_database, fsm_data, suspended>>
    /\ IF result = None
       THEN /\ reply' = Reply("food_not_found")
            /\ UNCHANGED fsm_state
       ELSE /\ fsm_state' = [fsm_state EXCEPT ![u] = WaitingGrams]
            /\ reply' = Reply("food_found")

EatResult(u, product_query, result) ==
    /\ food_cache' = Store(food_cache, product_query, result)
    /\ UNCHANGED <<user_database, suspended>>
    /\ IF result = None
       THEN /\ reply' = Reply("food_not_found")
            /\ UNCHANGED <<fsm_state, fsm_data>>
       ELSE /\ fsm_data' = [fsm_data EXCEPT ![u] = update_data(@, result)]
            /\ fsm_state' = [fsm_state EXCEPT ![u] = WaitingGrams]
            /\ reply' = Reply("food_found")

EatParts(u, parts, response) ==
    IF ~HasProfile(u) THEN RequireProfile
    ELSE IF Len(parts) < 2 THEN Answer(Reply("eat_usage"))
    ELSE EatResult(u, strip(parts[2]), Cached(strip(parts[2]), response))

cmd_eat(u, text, response) ==
    /\ IsCommand(text, "eat")
    /\ EatParts(u, split1(text), response)

GramsRejected(grams) == ~truthy(grams) \/ le(grams, 0) \/ gt(grams, 2000)

\* The replies of /drink, of the grams step and of /status divide by a target.
\* detail: the grams and the calories added, as the reply shows them.
FoodRecord(u, detail, total, now) ==
    /\ Len(user_database[u].calorie_timeline) < MaxTimeline
    /\ user_database' =
           [user_database EXCEPT ![u].calories_eaten = total,
                                 ![u].calorie_timeline = Append(@, <<now, total>>)]
    /\ UNCHANGED <<food_cache, suspended>>
    /\ IF user_database[u].calorie_target = 0
       THEN reply' = Raised /\ UNCHANGED <<fsm_state, fsm_data>>
       ELSE reply' = ReplyWith("food_recorded", detail) /\ Clear(u)

FoodTotal(u, detail, now) ==
    FoodRecord(u, detail, user_database[u].calories_eaten + detail[2], now)

FoodData(u, data, grams, now) ==
    IF ~({"product_name", "kcal_per_100g"} \subseteq DOMAIN data)
    THEN Answer(Raised)
    ELSE IF ~IsFinite(data["kcal_per_100g"])
    THEN Answer(Raised)
    ELSE FoodTotal(u, <<grams, int_total_kcal(data["kcal_per_100g"], grams)>>, now)

\* A grams step that ends the conversation when it refuses the grams.
FoodGramsRefusalClears(u, grams, now) ==
    IF GramsRejected(grams)
    THEN /\ Clear(u)
         /\ reply' = Reply("grams_invalid")
         /\ UNCHANGED <<user_database, food_cache, suspended>>
    ELSE FoodData(u, fsm_data[u], grams.num, now)

FoodGrams(u, grams, now) ==
    IF GramsRejected(grams)
    THEN Answer(Reply("grams_invalid"))
    ELSE FoodData(u, fsm_data[u], grams.num, now)

process_food_grams(u, text, now) ==
    /\ fsm_state[u] = WaitingGrams
    /\ NotCommand(text)
    /\ IF ~HasProfile(u)
       THEN /\ Clear(u)
            /\ reply' = Reply("require_profile")
            /\ UNCHANGED <<user_database, food_cache, suspended>>
       ELSE FoodGrams(u, parse_number(text, FALSE), now)

(***************************************************************************)
(* The two food handlers, suspended while their answer is sent             *)
(*                                                                         *)
(* Polling handles every update in a task of its own, so a second message  *)
(* of a user is handled while the handler of the first waits in            *)
(* await message.answer(...).  cmd_eat has set_state still to run after    *)
(* its answer, process_food_grams has state.clear().                       *)
(***************************************************************************)

EatAnswer(u, product_query, result) ==
    /\ result # None
    /\ suspended[u].cmd_eat + suspended[u].process_food_grams < MaxSuspended
    /\ food_cache' = Store(food_cache, product_query, result)
    /\ fsm_data' = [fsm_data EXCEPT ![u] = update_data(@, result)]
    /\ reply' = Reply("food_found")
    /\ suspended' = [suspended EXCEPT ![u].cmd_eat = @ + 1]
    /\ UNCHANGED <<fsm_state, user_database>>

\* cmd_eat, from its start into the answer that shows the product found.
cmd_eat_answer(u, text, response) ==
    /\ IsCommand(text, "eat")
    /\ HasProfile(u)
    /\ Len(split1(text)) >= 2
    /\ EatAnswer(u, strip(split1(text)[2]),
                 Cached(strip(split1(text)[2]), response))

\* cmd_eat, resumed after its answer: state.set_state(waiting_grams).
cmd_eat_set_state(u) ==
    /\ suspended[u].cmd_eat > 0
    /\ fsm_state' = [fsm_state EXCEPT ![u] = WaitingGrams]
    /\ suspended' = [suspended EXCEPT ![u].cmd_eat = @ - 1]
    /\ UNCHANGED <<fsm_data, user_database, food_cache, reply>>

\* detail: the grams and the calories added, as the reply shows them.
GramsAnswer(u, detail, now) ==
    /\ Len(user_database[u].calorie_timeline) < MaxTimeline
    /\ suspended[u].cmd_eat + suspended[u].process_food_grams < MaxSuspended
    /\ user_database' =
           [user_database EXCEPT
               ![u].calories_eaten = @ + detail[2],
               ![u].calorie_timeline =
                   Append(@, <<now, user_database[u].calories_eaten + detail[2]>>)]
    /\ reply' = ReplyWith("food_recorded", detail)
    /\ suspended' = [suspended EXCEPT ![u].process_food_grams = @ + 1]
    /\ UNCHANGED <<fsm_state, fsm_data, food_cache>>

\* process_food_grams, from its start into the answer that confirms the
\* record: the profile is updated, the session is not cleared yet.
process_food_grams_answer(u, text, now) ==
    /\ fsm_state[u] = WaitingGrams
    /\ NotCommand(text)
    /\ HasProfile(u)
    /\ ~GramsRejected(parse_number(text, FALSE))
    /\ {"product_name", "kcal_per_100g"} \subseteq DOMAIN fsm_data[u]
    /\ IsFinite(fsm_data[u]["kcal_per_100g"])
    /\ user_database[u].calorie_target # 0
    /\ GramsAnswer(u,
                   <<parse_number(text, FALSE).num,
                     int_total_kcal(fsm_data[u]["kcal_per_100g"],
                                    parse_number(text, FALSE).num)>>,
                   now)

\* process_food_grams, resumed after its answer: state.clear().
process_food_grams_clear(u) ==
    /\ suspended[u].process_food_grams > 0
    /\ Clear(u)
    /\ suspended' = [suspended EXCEPT ![u].process_food_grams = @ - 1]
    /\ UNCHANGED <<user_database, food_cache, reply>>

\* MET_VALUES in tenths, as pairs (names, value).
MET_VALUES ==
    {<<{<<1073, 1077, 1075>>, U("run")}, 100>>,
     <<{<<1093, 1086, 1076, 1100, 1073, 1072>>, U("walk")}, 45>>,
     <<{<<1074, 1077, 1083, 1086, 1089, 1080, 1087, 1077, 1076>>, U("cycling")}, 80>>,
     <<{<<1087, 1083, 1072, 1074, 1072, 1085, 1080, 1077>>, U("swimming")}, 95>>,
     <<{<<1079, 1072, 1083>>, U("gym")}, 65>>,
     <<{<<1081, 1086, 1075, 1072>>, U("yoga")}, 35>>}

\* MET_VALUES.get(exercise, 7.0), in tenths.
MET(exercise) ==
    IF \E entry \in MET_VALUES : exercise \in entry[1]
    THEN (CHOOSE entry \in MET_VALUES : exercise \in entry[1])[2]
    ELSE 70

\* int(met * weight_kg * hours) with hours = minutes / 60.0, each operation
\* in binary64; met is a whole number of halves.
calculate_burned(exercise, minutes, weight_kg) ==
    Whole(Mul(Mul([limbs |-> Limbs(MET(lower(exercise)) \div 5), exp |-> -1],
                  DoubleOf(weight_kg.num, weight_kg.den)),
              DoubleOf(minutes, 60)))

water_bonus(minutes) == (minutes \div 30) * 200

\* The water norm of the profile's own fields.
NormOf(profile) ==
    calculate_water_norm(profile.weight, profile.activity_minutes,
                         profile.temperature).num

\* A /train that records the burned calories and forgets the water bonus.
TrainRecordKeepsTarget(u, detail, total, now) ==
    /\ Len(user_database[u].workout_timeline) < MaxTimeline
    /\ user_database' =
           [user_database EXCEPT ![u].calories_burned = total,
                                 ![u].workout_timeline = Append(@, <<now, total>>)]
    /\ reply' = ReplyWith("train_recorded", detail)
    /\ UNCHANGED <<fsm_state, fsm_data, food_cache, suspended>>

\* detail: the exercise type, the minutes, the calories burned and the
\* water bonus, as the reply shows them.
TrainRecord(u, detail, total, now) ==
    /\ Len(user_database[u].workout_timeline) < MaxTimeline
    /\ user_database[u].water_target + detail[4] <= NormOf(user_database[u]) + MaxBonus
    /\ user_database' =
           [user_database EXCEPT ![u].calories_burned = total,
                                 ![u].water_target = @ + detail[4],
                                 ![u].workout_timeline = Append(@, <<now, total>>)]
    /\ reply' = ReplyWith("train_recorded", detail)
    /\ UNCHANGED <<fsm_state, fsm_data, food_cache, suspended>>

TrainBurned(u, detail, now) ==
    TrainRecord(u, detail, user_database[u].calories_burned + detail[3], now)

TrainDuration(u, exercise_type, duration, now) ==
    IF ~truthy(duration) \/ le(duration, 0) \/ gt(duration, 300)
    THEN Answer(Reply("train_invalid"))
    ELSE TrainBurned(u,
                     <<exercise_type, duration.num,
                       calculate_burned(exercise_type, duration.num,
                                        user_database[u].weight),
                       water_bonus(duration.num)>>,
                     now)

TrainParts(u, parts, now) ==
    IF ~HasProfile(u) THEN RequireProfile
    ELSE IF Len(parts) < 3 THEN Answer(Reply("train_usage"))
    ELSE TrainDuration(u, strip(parts[2]), parse_number(parts[3], FALSE), now)

cmd_train(u, text, now) ==
    /\ IsCommand(text, "train")
    /\ TrainParts(u, split(text), now)

\* A /reset that takes the exercise bonuses back out of the water target.
cmd_reset_restores_norm(u, text, now) ==
    /\ IsCommand(text, "reset")
    /\ IF ~HasProfile(u) THEN RequireProfile
       ELSE /\ user_database' =
                   [user_database EXCEPT ![u].water_consumed = 0,
                                         ![u].calories_eaten = 0,
                                         ![u].calories_burned = 0,
                                         ![u].water_target = NormOf(user_database[u]),
                                         ![u].water_timeline = <<<<now, 0>>>>,
                                         ![u].calorie_timeline = <<<<now, 0>>>>,
                                         ![u].workout_timeline = <<<<now, 0>>>>]
            /\ reply' = ReplyWith("reset_done",
                                  <<user_database[u].water_target,
                                    user_database[u].calorie_target>>)
            /\ UNCHANGED <<fsm_state, fsm_data, food_cache, suspended>>

\* A /reset that leaves the exercise ledger as it is.
cmd_reset_keeps_burned(u, text, now) ==
    /\ IsCommand(text, "reset")
    /\ IF ~HasProfile(u) THEN RequireProfile
       ELSE /\ user_database' =
                   [user_database EXCEPT ![u].water_consumed = 0,
                                         ![u].calories_eaten = 0,
                                         ![u].water_timeline = <<<<now, 0>>>>,
                                         ![u].calorie_timeline = <<<<now, 0>>>>]
            /\ reply' = ReplyWith("reset_done",
                                  <<user_database[u].water_target,
                                    user_database[u].calorie_target>>)
            /\ UNCHANGED <<fsm_state, fsm_data, food_cache, suspended>>

cmd_reset(u, text, now) ==
    /\ IsCommand(text, "reset")
    /\ IF ~HasProfile(u) THEN RequireProfile
       ELSE /\ user_database' =
                   [user_database EXCEPT ![u].water_consumed = 0,
                                         ![u].calories_eaten = 0,
                                         ![u].calories_burned = 0,
                                         ![u].water_timeline = <<<<now, 0>>>>,
                                         ![u].calorie_timeline = <<<<now, 0>>>>,
                                         ![u].workout_timeline = <<<<now, 0>>>>]
            /\ reply' = ReplyWith("reset_done",
                                  <<user_database[u].water_target,
                                    user_database[u].calorie_target>>)
            /\ UNCHANGED <<fsm_state, fsm_data, food_cache, suspended>>

(***************************************************************************)
(* Reports                                                                 *)
(***************************************************************************)

Min(a, b) == IF a < b THEN a ELSE b

Max(a, b) == IF a > b THEN a ELSE b

\* min(int(part / target * 100), 100)
Percent(part, target) == Min(Trunc(part * 100, target), 100)

\* progress_bar: the numbers of filled and of empty cells; str * n is empty
\* for a negative n.
Bar(filled) == <<Max(filled, 0), Max(10 - filled, 0)>>

progress_bar(percent) == Bar(Trunc(percent, 10))

StatusLines(water_percent, water_remain, calorie_balance, calorie_percent, calorie_remain) ==
    [water_percent |-> water_percent, water_remain |-> water_remain,
     water_bar |-> progress_bar(water_percent),
     calorie_balance |-> calorie_balance, calorie_percent |-> calorie_percent,
     calorie_remain |-> calorie_remain,
     calorie_bar |-> progress_bar(calorie_percent)]

\* The numbers of the /status message.
StatusBalance(profile, calorie_balance) ==
    StatusLines(Percent(profile.water_consumed, profile.water_target),
                Max(profile.water_target - profile.water_consumed, 0),
                calorie_balance,
                Percent(calorie_balance, profile.calorie_target),
                Max(profile.calorie_target - calorie_balance, 0))

StatusReply(profile) ==
    IF profile.water_target = 0 \/ profile.calorie_target = 0
    THEN Raised
    ELSE ReplyWith("status",
                   StatusBalance(profile,
                                 profile.calories_eaten - profile.calories_burned))

cmd_status(u, text) ==
    /\ IsCommand(text, "status")
    /\ IF ~HasProfile(u) THEN RequireProfile
       ELSE Answer(StatusReply(user_database[u]))

\* The charts /charts sends, in order.
ChartsReply(profile) ==
    IF Len(profile.water_timeline) < 2 /\ Len(profile.calorie_timeline) < 2
    THEN Reply("charts_insufficient")
    ELSE ReplyWith("charts",
                   (IF Len(profile.water_timeline) >= 2 THEN <<"water">> ELSE <<>>)
                       \o (IF Len(profile.calorie_timeline) >= 2
                           THEN <<"calories">> ELSE <<>>)
                       \o (IF Len(profile.workout_timeline) >= 2
                           THEN <<"burned">> ELSE <<>>))

cmd_charts(u, text) ==
    /\ IsCommand(text, "charts")
    /\ IF ~HasProfile(u) THEN RequireProfile
       ELSE Answer(ChartsReply(user_database[u]))

WaterTip(water_deficit) ==
    IF water_deficit > 500 THEN <<"water_left", water_deficit, Min(250, water_deficit)>>
    ELSE IF water_deficit > 0 THEN <<"water_almost", water_deficit>>
    ELSE <<"water_done">>

\* int(excess / (4.5 * weight / 60)); None stands for the error of a nan weight.
WalkMinutes(excess, weight) ==
    IF IsFinite(weight) /\ weight.num # 0
    THEN Trunc(excess * 600 * weight.den, 45 * weight.num)
    ELSE 0

CalorieTip(profile, cal_balance, cal_deficit) ==
    IF cal_balance > profile.calorie_target + 300
    THEN <<"calories_excess", cal_balance - profile.calorie_target,
           WalkMinutes(cal_balance - profile.calorie_target, profile.weight)>>
    ELSE IF cal_deficit > 300 THEN <<"calories_left", cal_deficit>>
    ELSE IF cal_deficit > 0 THEN <<"calories_almost", cal_deficit>>
    ELSE <<"calories_done">>

\* The two computed recommendations of /tips.
TipsBalance(profile, cal_balance) ==
    <<WaterTip(profile.water_target - profile.water_consumed),
      CalorieTip(profile, cal_balance, profile.calorie_target - cal_balance)>>

cmd_tips(u, text) ==
    /\ IsCommand(text, "tips")
    /\ IF ~HasProfile(u) THEN RequireProfile
       ELSE Answer(ReplyWith("tips",
                             TipsBalance(user_database[u],
                                         user_database[u].calories_eaten
                                             - user_database[u].calories_burned)))

(***************************************************************************)
(* Incoming messages                                                       *)
(***************************************************************************)

\* The texts users send: for each command, with and without arguments,
\* accepted and refused; for each step of a conversation, one accepted and
\* one refused answer (gender: Мужской, other; choice: Да, Нет, maybe).
Texts ==
    [start |-> {U("/start"), U("/help")},
     setup |-> {U("/setup")},
     cancel |-> {U("/cancel")},
     drink |-> {U("/drink 250"), U("/drink"), U("/drink 0"), U("/drink 3001"),
                U("/drink x")},
     eat |-> {U("/eat banana"), U("/eat")},
     train |-> {U("/train run 30"), U("/train run"), U("/train run 0"),
                U("/train run 301")},
     status |-> {U("/status")},
     charts |-> {U("/charts")},
     tips |-> {U("/tips")},
     reset |-> {U("/reset")},
     weight |-> {U("75"), U("29.9")},
     height |-> {U("175"), U("99")},
     age |-> {U("25"), U("9")},
     gender |-> {<<1052, 1091, 1078, 1089, 1082, 1086, 1081>>, U("other")},
     activity |-> {U("20"), U("-1")},
     city |-> {U("Moscow"), U(" M ")},
     choice |-> {<<1044, 1072>>, <<1053, 1077, 1090>>, U("maybe")},
     calories |-> {U("2200"), U("999")},
     grams |-> {U("150"), U("0"), U("2001")}]

(***************************************************************************)
(* The bot                                                                 *)
(***************************************************************************)

Init ==
    /\ fsm_state = [u \in Users |-> NoState]
    /\ fsm_data = [u \in Users |-> EmptyDict]
    /\ user_database = <<>>
    /\ food_cache = <<>>
    /\ suspended = [u \in Users |-> [cmd_eat |-> 0, process_food_grams |-> 0]]
    /\ reply = Reply("none")

Next ==
    \E u \in Users :
        \/ \E text \in Texts.start : cmd_start(u, text)
        \/ \E text \in Texts.setup : cmd_setup(u, text)
        \/ \E text \in Texts.weight : process_weight(u, text)
        \/ \E text \in Texts.height : process_height(u, text)
        \/ \E text \in Texts.age : process_age(u, text)
        \/ \E text \in Texts.gender : process_gender(u, text)
        \/ \E text \in Texts.activity : process_activity(u, text)
        \/ \E text \in Texts.city : process_city(u, text)
        \/ \E text \in Texts.choice, temp \in Temperatures, now \in Times :
               process_manual_choice(u, text, temp, now)
        \/ \E text \in Texts.calories, temp \in Temperatures, now \in Times :
               process_manual_calories(u, text, temp, now)
        \/ \E text \in Texts.cancel : cmd_cancel(u, text)
        \/ \E text \in Texts.drink, now \in Times : cmd_drink(u, text, now)
        \/ \E text \in Texts.eat, response \in FoodResponses : cmd_eat(u, text, response)
        \/ \E text \in Texts.grams, now \in Times : process_food_grams(u, text, now)
        \/ \E text \in Texts.train, now \in Times : cmd_train(u, text, now)
        \/ \E text \in Texts.status : cmd_status(u, text)
        \/ \E text \in Texts.charts : cmd_charts(u, text)
        \/ \E text \in Texts.tips : cmd_tips(u, text)
        \/ \E text \in Texts.reset, now \in Times : cmd_reset(u, text, now)

Spec == Init /\ [][Next]_vars

(***************************************************************************)
(* The setup conversation alone, on the edges of every validation rule     *)
(***************************************************************************)

\* Answers on both edges of every rule, just outside them, and the texts
\* float() reads as no finite number (gender: Мужской, Женский, female,
\* other).
Edges ==
    [weight |-> {U("30"), U("300"), U("29.9"), U("300.1"), U("nan"), U("inf"), U("kg")},
     height |-> {U("100"), U("250"), U("99"), U("251"), U("nan"), U("inf")},
     age |-> {U("10"), U("100"), U("9"), U("101"), U("nan")},
     gender |-> {<<1052, 1091, 1078, 1089, 1082, 1086, 1081>>,
                 <<1046, 1077, 1085, 1089, 1082, 1080, 1081>>,
                 U("female"), U("other")},
     activity |-> {U("0"), U("500"), U("-1"), U("501"), U("nan")},
     city |-> {U("Ufa"), U(" M "), U("")},
     calories |-> {U("1000"), U("5000"), U("999"), U("5001"), U("inf")},
     food |-> {Response(0, <<>>),
               Response(200, <<Product(U("Banana"), PyFloat(89, 1), None)>>),
               Response(200, <<Product(U("Tea"), PyFloat(46, 10), None)>>),
               Response(200, <<Product(U("Ice"), PyFloat(-89, 1), None)>>)},
     grams |-> {U("150"), U("1500"), U("0")}]

NextSetup ==
    \E u \in Users :
        \/ \E text \in Texts.setup : cmd_setup(u, text)
        \/ \E text \in Edges.weight : process_weight(u, text)
        \/ \E text \in Edges.height : process_height(u, text)
        \/ \E text \in Edges.age : process_age(u, text)
        \/ \E text \in Edges.gender : process_gender(u, text)
        \/ \E text \in Edges.activity : process_activity(u, text)
        \/ \E text \in Edges.city : process_city(u, text)
        \/ \E text \in Texts.choice, temp \in Temperatures, now \in Times :
               process_manual_choice(u, text, temp, now)
        \/ \E text \in Edges.calories, temp \in Temperatures, now \in Times :
               process_manual_calories(u, text, temp, now)
        \/ \E text \in Texts.cancel : cmd_cancel(u, text)

SpecSetup == Init /\ [][NextSetup]_vars

(***************************************************************************)
(* The food ledger, on the energy values the lookup can return             *)
(***************************************************************************)

\* The lookup returns the first energy value that is truthy: an integral
\* one, one that is no binary fraction, a negative one.
NextFood ==
    \E u \in Users :
        \/ \E text \in Texts.setup : cmd_setup(u, text)
        \/ \E text \in Texts.weight : process_weight(u, text)
        \/ \E text \in Texts.height : process_height(u, text)
        \/ \E text \in Texts.age : process_age(u, text)
        \/ \E text \in Texts.gender : process_gender(u, text)
        \/ \E text \in Texts.activity : process_activity(u, text)
        \/ \E text \in Texts.city : process_city(u, text)
        \/ \E text \in Texts.choice, temp \in Temperatures, now \in Times :
               process_manual_choice(u, text, temp, now)
        \/ \E text \in Texts.cancel : cmd_cancel(u, text)
        \/ \E text \in Texts.eat, response \in Edges.food : cmd_eat(u, text, response)
        \/ \E text \in Edges.grams, now \in Times : process_food_grams(u, text, now)
        \/ \E text \in Texts.reset, now \in Times : cmd_reset(u, text, now)

SpecFood == Init /\ [][NextFood]_vars

(***************************************************************************)
(* The formulas of the norms, on the bands of the activity coefficient     *)
(***************************************************************************)

\* Accepted answers only: two weights, both genders in both alphabets and
\* letter cases (Мужской, Женский, MALE, Female), the activity on both sides
\* of 30 and of 60 minutes, two manual norms; exercises of one kind in two
\* letter cases for one, two and sixty minutes, and of an unlisted kind.
Samples ==
    [weight |-> {U("75"), U("60.5")},
     height |-> {U("175")},
     age |-> {U("25")},
     gender |-> {<<1052, 1091, 1078, 1089, 1082, 1086, 1081>>,
                 <<1046, 1077, 1085, 1089, 1082, 1080, 1081>>,
                 U("MALE"), U("Female")},
     activity |-> {U("20"), U("29"), U("30"), U("59"), U("60")},
     calories |-> {U("2200"), U("4000")},
     train |-> {U("/train run 1"), U("/train run 2"), U("/train RUN 2"),
                U("/train run 60"), U("/train dance 60")}]

NextNorm ==
    \E u \in Users :
        \/ \E text \in Texts.setup : cmd_setup(u, text)
        \/ \E text \in Samples.weight : process_weight(u, text)
        \/ \E text \in Samples.height : process_height(u, text)
        \/ \E text \in Samples.age : process_age(u, text)
        \/ \E text \in Samples.gender : process_gender(u, text)
        \/ \E text \in Samples.activity : process_activity(u, text)
        \/ \E text \in Texts.city : process_city(u, text)
        \/ \E text \in Texts.choice, temp \in Temperatures, now \in Times :
               process_manual_choice(u, text, temp, now)
        \/ \E text \in Samples.calories, temp \in Temperatures, now \in Times :
               process_manual_calories(u, text, temp, now)

SpecNorm == Init /\ [][NextNorm]_vars

(***************************************************************************)
(* The exercise ledger, on durations that are multiples of one another     *)
(***************************************************************************)

NextTrain ==
    \E u \in Users :
        \/ \E text \in Texts.setup : cmd_setup(u, text)
        \/ \E text \in Samples.weight : process_weight(u, text)
        \/ \E text \in Texts.height : process_height(u, text)
        \/ \E text \in Texts.age : process_age(u, text)
        \/ \E text \in Texts.gender : process_gender(u, text)
        \/ \E text \in Texts.activity : process_activity(u, text)
        \/ \E text \in Texts.city : process_city(u, text)
        \/ \E text \in Texts.choice, temp \in Temperatures, now \in Times :
               process_manual_choice(u, text, temp, now)
        \/ \E text \in Samples.train, now \in Times : cmd_train(u, text, now)
        \/ \E text \in Texts.reset, now \in Times : cmd_reset(u, text, now)

SpecTrain == Init /\ [][NextTrain]_vars

(***************************************************************************)
(* The food ledger, with the handlers of two messages interleaved          *)
(***************************************************************************)

\* Every handler runs from its start to its end in one step, and the two
\* food handlers may also stop in their last answer and be resumed later.
NextAwait ==
    \E u \in Users :
        \/ \E text \in Texts.setup : cmd_setup(u, text)
        \/ \E text \in Texts.weight : process_weight(u, text)
        \/ \E text \in Texts.height : process_height(u, text)
        \/ \E text \in Texts.age : process_age(u, text)
        \/ \E text \in Texts.gender : process_gender(u, text)
        \/ \E text \in Texts.activity : process_activity(u, text)
        \/ \E text \in Texts.city : process_city(u, text)
        \/ \E text \in Texts.choice, temp \in Temperatures, now \in Times :
               process_manual_choice(u, text, temp, now)
        \/ \E text \in Texts.eat, response \in FoodResponses : cmd_eat(u, text, response)
        \/ \E text \in Texts.grams, now \in Times : process_food_grams(u, text, now)
        \/ \E text \in Texts.eat, response \in FoodResponses :
               cmd_eat_answer(u, text, response)
        \/ cmd_eat_set_state(u)
        \/ \E text \in Texts.grams, now \in Times :
               process_food_grams_answer(u, text, now)
        \/ process_food_grams_clear(u)

SpecAwait == Init /\ [][NextAwait]_vars

(***************************************************************************)
(* Properties                                                              *)
(***************************************************************************)

SetupStateSet == {SetupStates[i] : i \in 1..Len(SetupStates)}

\* The field each of the first six setup states collects.
FieldOf == <<"weight", "height", "age", "gender", "activity", "city">>

\* v is a finite number within [lo, hi].
InRange(v, lo, hi) == IsFinite(v) /\ v.num >= lo * v.den /\ v.num <= hi * v.den

\* The setup state u is in holds every field of the states before it.
CollectedSoFar(u) ==
    \A i \in 1..Len(SetupStates) :
        fsm_state[u] = SetupStates[i] =>
            \A j \in 1..Min(i - 1, Len(FieldOf)) : FieldOf[j] \in DOMAIN fsm_data[u]

C1_Step(u) ==
    /\ \A i \in 2..7 :
           fsm_state'[u] = SetupStates[i] /\ fsm_state[u] # SetupStates[i] =>
               /\ fsm_state[u] = SetupStates[i - 1]
               /\ FieldOf[i - 1] \in DOMAIN fsm_data'[u]
    /\ fsm_state'[u] = "weight_input" /\ fsm_state[u] # "weight_input" =>
           reply'.kind = "ask_weight"
    /\ fsm_state'[u] = "manual_calories_input"
           /\ fsm_state[u] # "manual_calories_input" =>
               fsm_state[u] = "manual_calories_choice"
                   /\ reply'.kind = "ask_manual_calories"
    /\ u \in DOMAIN user_database' /\ u \notin DOMAIN user_database =>
           reply'.kind = "profile_ready"
    /\ reply'.kind = "profile_ready" =>
           /\ fsm_state[u] \in {"manual_calories_choice", "manual_calories_input"}
           /\ SetupFields \subseteq DOMAIN fsm_data[u]
           /\ fsm_state[u] = "manual_calories_choice" =>
                  user_database'[u].calorie_target =
                      calculate_calorie_norm(fsm_data[u]["weight"],
                                             fsm_data[u]["height"],
                                             fsm_data[u]["age"],
                                             fsm_data[u]["gender"],
                                             fsm_data[u]["activity"], None).num
    /\ CollectedSoFar(u)'

\* C1: the setup conversation advances only in the fixed order: a setup
\* state is entered only from its predecessor, with the predecessor's field
\* collected (weight_input only by /setup, manual_calories_input only from
\* manual_calories_choice on a yes), a profile is installed only from
\* manual_calories_choice (with the computed calorie norm) or from
\* manual_calories_input, and finalize finds all six fields.
C1_SetupOrder == [][\A u \in Users : C1_Step(u)]_vars

\* A profile installed from manual_calories_input with the entered norm.
C1_Witness ==
    /\ reply.kind = "profile_ready"
    /\ 1 \in DOMAIN user_database
    /\ user_database[1].calorie_target = 2200

SessionKept == UNCHANGED <<fsm_state, fsm_data, user_database>>

\* The text holds one of the keywords, whatever its case.
MatchesAny(text, keywords) == \E kw \in keywords : contains(kw, lower(strip(text)))

C2_Step(u) ==
    /\ \A text \in Edges.weight :
           process_weight(u, text) =>
               IF InRange(parse_number(text, TRUE), 30, 300)
               THEN fsm_state'[u] = "height_input"
               ELSE SessionKept
    /\ \A text \in Edges.height :
           process_height(u, text) =>
               IF InRange(parse_number(text, FALSE), 100, 250)
               THEN fsm_state'[u] = "age_input"
               ELSE SessionKept
    /\ \A text \in Edges.age :
           process_age(u, text) =>
               IF InRange(parse_number(text, FALSE), 10, 100)
               THEN fsm_state'[u] = "gender_input"
               ELSE SessionKept
    /\ \A text \in Edges.gender :
           process_gender(u, text) =>
               IF MatchesAny(text, Keywords.male \cup Keywords.female)
               THEN fsm_state'[u] = "activity_input"
               ELSE SessionKept
    /\ \A text \in Edges.activity :
           process_activity(u, text) =>
               IF InRange(parse_number(text, FALSE), 0, 500)
               THEN fsm_state'[u] = "city_input"
               ELSE SessionKept
    /\ \A text \in Edges.city :
           process_city(u, text) =>
               IF Len(strip(text)) >= 2
               THEN fsm_state'[u] = "manual_calories_choice"
               ELSE SessionKept
    /\ \A text \in Texts.choice, temp \in Temperatures, now \in Times :
           process_manual_choice(u, text, temp, now) =>
               MatchesAny(text, Keywords.yes \cup Keywords.no) \/ SessionKept
    /\ \A text \in Edges.calories, temp \in Temperatures, now \in Times :
           process_manual_calories(u, text, temp, now) =>
               InRange(parse_number(text, FALSE), 1000, 5000) \/ SessionKept

\* C2: in every setup state the session advances if and only if the text
\* satisfies the rule of the state (weight in [30,300], height in [100,250],
\* age in [10,100], a gender keyword, activity in [0,500], a city of two
\* characters or more, a yes/no keyword, calories in [1000,5000]); on any
\* other text the state, the collected fields and the profiles are unchanged.
C2_ValidatedAdvance == [][\A u \in Users : C2_Step(u)]_vars

\* The session has advanced with a weight that is no number of [30,300].
C2_Witness ==
    /\ fsm_state[1] = "height_input"
    /\ "weight" \in DOMAIN fsm_data[1]
    /\ ~InRange(fsm_data[1]["weight"], 30, 300)

\* A command other than /setup and /cancel is handled for u.
OtherCommand(u) ==
    \/ \E text \in Texts.start : cmd_start(u, text)
    \/ \E text \in Texts.drink, now \in Times : cmd_drink(u, text, now)
    \/ \E text \in Texts.eat, response \in FoodResponses : cmd_eat(u, text, response)
    \/ \E text \in Texts.train, now \in Times : cmd_train(u, text, now)
    \/ \E text \in Texts.status : cmd_status(u, text)
    \/ \E text \in Texts.charts : cmd_charts(u, text)
    \/ \E text \in Texts.tips : cmd_tips(u, text)
    \/ \E text \in Texts.reset, now \in Times : cmd_reset(u, text, now)

\* C3: while a user is in a setup state, every command other than /setup
\* and /cancel leaves the state and the collected fields unchanged.
C3_SessionSurvives ==
    [][\A u \in Users :
           fsm_state[u] \in SetupStateSet /\ OtherCommand(u) =>
               fsm_state'[u] = fsm_state[u] /\ fsm_data'[u] = fsm_data[u]]_vars

\* A user has left a setup session for the grams step: the data of the
\* pending food entry holds a collected setup field.
C3_Witness ==
    /\ fsm_state[1] = WaitingGrams
    /\ "weight" \in DOMAIN fsm_data[1]

\* A timeline of one entry of value 0.
Seeded(timeline) == Len(timeline) = 1 /\ timeline[1][2] = 0

C4_Step(u) ==
    reply'.kind = "profile_ready" =>
        /\ u \in DOMAIN user_database'
        /\ user_database'[u].water_consumed = 0
        /\ user_database'[u].calories_eaten = 0
        /\ user_database'[u].calories_burned = 0
        /\ Seeded(user_database'[u].water_timeline)
        /\ Seeded(user_database'[u].calorie_timeline)
        /\ Seeded(user_database'[u].workout_timeline)
        /\ \A f \in {"weight", "height", "age", "gender", "city"} :
               user_database'[u][f] = fsm_data[u][f]
        /\ user_database'[u].activity_minutes = fsm_data[u]["activity"]
        /\ user_database'[u].water_target = NormOf(user_database'[u])
        /\ fsm_state'[u] = NoState
        /\ fsm_data'[u] = EmptyDict

\* C4: finalize installs a profile with the three counters at 0 and each
\* timeline holding one entry of value 0, made of the fields of the session
\* alone (nothing of a prior profile remains, the water target is the norm
\* of the new fields), and leaves the user idle with no session data.
C4_FreshProfile == [][\A u \in Users : C4_Step(u)]_vars

\* A profile installed over a prior one: food was looked up before, which
\* takes a profile.
C4_Witness ==
    /\ reply.kind = "profile_ready"
    /\ food_cache # <<>>
    /\ fsm_state[1] = NoState

\* Finalize has completed for u: a profile is installed and u is idle; with
\* no temperature the water target carries no heat bonus.
Completed(u, temp) ==
    /\ reply'.kind = "profile_ready"
    /\ u \in DOMAIN user_database'
    /\ fsm_state'[u] = NoState
    /\ temp = None =>
           /\ user_database'[u].temperature = None
           /\ user_database'[u].water_target =
                  WaterNorm(user_database'[u].weight,
                            (user_database'[u].activity_minutes \div 30) * 500).num

C5_Step(u) ==
    \A temp \in Temperatures, now \in Times :
        /\ \A text \in Texts.choice :
               process_manual_choice(u, text, temp, now)
                   /\ MatchesAny(text, Keywords.no)
                   /\ ~MatchesAny(text, Keywords.yes) =>
                       Completed(u, temp)
        /\ \A text \in Edges.calories :
               process_manual_calories(u, text, temp, now)
                   /\ InRange(parse_number(text, FALSE), 1000, 5000) =>
                       Completed(u, temp)

\* C5: finalize always completes: once the choice is answered no, or a
\* calorie norm of [1000,5000] is entered, a profile is installed and the
\* user is idle, whatever the weather lookup gave; with no temperature the
\* water target has no heat bonus.
C5_FinalizeCompletes == [][\A u \in Users : C5_Step(u)]_vars

\* Finalize has raised: the session is still at the choice step.
C5_Witness ==
    /\ reply = Raised
    /\ fsm_state[1] = "manual_calories_choice"

C6_Step(u) ==
    reply'.kind = "ask_weight" =>
        /\ fsm_state'[u] = "weight_input"
        /\ fsm_data'[u] = EmptyDict
        /\ UNCHANGED user_database

\* C6: /setup in any state puts the user in weight_input with no collected
\* field and leaves the profiles as they are.
C6_SetupStart == [][\A u \in Users : C6_Step(u)]_vars

\* /setup was sent by a user whose profile has a history.
C6_Witness ==
    /\ reply.kind = "ask_weight"
    /\ 1 \in DOMAIN user_database
    /\ Len(user_database[1].water_timeline) > 1

C7_Step(u) ==
    /\ \A text \in Texts.cancel :
           cmd_cancel(u, text) =>
               reply'.kind = IF fsm_state[u] = NoState
                             THEN "nothing_to_cancel"
                             ELSE "cancelled"
    /\ reply'.kind = "cancelled" =>
           /\ fsm_state'[u] = NoState
           /\ fsm_data'[u] = EmptyDict
           /\ UNCHANGED user_database
    /\ reply'.kind = "nothing_to_cancel" =>
           UNCHANGED <<fsm_state, fsm_data, user_database, food_cache>>

\* C7: /cancel in a setup state or at the grams step makes the user idle
\* and discards the session data, the profiles unchanged; /cancel of an
\* idle user changes nothing.
C7_Cancel == [][\A u \in Users : C7_Step(u)]_vars

\* A pending food entry was cancelled.
C7_Witness ==
    /\ reply.kind = "cancelled"
    /\ fsm_state[1] = NoState
    /\ fsm_data[1] = EmptyDict
    /\ food_cache # <<>>

\* C8: every profile of user_database has a water target above 0 and a
\* calorie target above 0.
C8_PositiveTargets ==
    \A u \in DOMAIN user_database :
        user_database[u].water_target > 0 /\ user_database[u].calorie_target > 0

\* The profile of the smallest norms: 30 kg, 100 cm, 100 years, female, no
\* activity, no heat.
C8_Witness ==
    /\ 1 \in DOMAIN user_database
    /\ user_database[1].calorie_target = 316
    /\ user_database[1].water_target = 900

Last(timeline) == timeline[Len(timeline)]

\* C9: each timeline of every profile is non-empty and the value of its
\* last entry is the counter it follows.
C9_TimelineTotals ==
    \A u \in DOMAIN user_database :
        /\ user_database[u].water_timeline # <<>>
        /\ user_database[u].calorie_timeline # <<>>
        /\ user_database[u].workout_timeline # <<>>
        /\ Last(user_database[u].water_timeline)[2] = user_database[u].water_consumed
        /\ Last(user_database[u].calorie_timeline)[2] = user_database[u].calories_eaten
        /\ Last(user_database[u].workout_timeline)[2] = user_database[u].calories_burned

\* Each counter after two records: the totals differ from the last amounts.
C9_Witness ==
    /\ 1 \in DOMAIN user_database
    /\ user_database[1].water_consumed = 500
    /\ user_database[1].calories_eaten = 266
    /\ user_database[1].calories_burned = 750
    /\ Len(user_database[1].water_timeline) = 3

\* The fields of a profile /drink has no business with.
RestOf(profile) ==
    [profile EXCEPT !.water_consumed = 0, !.water_timeline = <<>>]

C10_Step(u) ==
    reply'.kind = "drink_added" =>
        /\ u \in DOMAIN user_database
        /\ reply'.detail[1] > 0 /\ reply'.detail[1] <= 3000
        /\ user_database'[u].water_consumed =
               user_database[u].water_consumed + reply'.detail[1]
        /\ Len(user_database'[u].water_timeline) =
               Len(user_database[u].water_timeline) + 1
        /\ SubSeq(user_database'[u].water_timeline, 1,
                  Len(user_database[u].water_timeline)) =
               user_database[u].water_timeline
        /\ Last(user_database'[u].water_timeline)[2] =
               user_database'[u].water_consumed
        /\ RestOf(user_database'[u]) = RestOf(user_database[u])
        /\ UNCHANGED <<fsm_state, fsm_data>>

\* C10: a recorded /drink of an amount of (0,3000] adds exactly the amount
\* to the water consumed and one entry, of the new total, to the water
\* timeline; the other counters, the targets, the other timelines and the
\* state of the user are unchanged.
C10_RecordWater == [][\A u \in Users : C10_Step(u)]_vars

\* A second /drink was recorded during a setup session.
C10_Witness ==
    /\ reply.kind = "drink_added"
    /\ fsm_state[1] = "age_input"
    /\ user_database[1].water_consumed = 500

\* The fields of a profile a food record has no business with.
BesidesFood(profile) ==
    [profile EXCEPT !.calories_eaten = 0, !.calorie_timeline = <<>>]

\* floor(kcal_per_100g * grams / 100), in exact arithmetic.
ExactFloor(kcal, grams) == (kcal.num * grams) \div (kcal.den * 100)

C11_Step(u, grams, text, now) ==
    (/\ process_food_grams(u, text, now)
     /\ HasProfile(u)
     /\ "kcal_per_100g" \in DOMAIN fsm_data[u]
     /\ grams.k = "int" /\ grams.num > 0 /\ grams.num <= 2000) =>
        /\ user_database'[u].calories_eaten =
               user_database[u].calories_eaten
                   + ExactFloor(fsm_data[u]["kcal_per_100g"], grams.num)
        /\ user_database'[u].calorie_timeline =
               Append(user_database[u].calorie_timeline,
                      <<now, user_database'[u].calories_eaten>>)
        /\ BesidesFood(user_database'[u]) = BesidesFood(user_database[u])
        /\ fsm_state'[u] = NoState
        /\ fsm_data'[u] = EmptyDict

\* C11: with a pending food entry and grams of (0,2000], process_food_grams
\* adds exactly floor(kcal_per_100g * grams / 100) to the calories eaten,
\* appends one entry of the new total to the calorie timeline, drops the
\* pending entry and leaves the user idle; water, burned calories and both
\* targets are unchanged.
C11_FoodTotal ==
    [][\A u \in Users : \A text \in Edges.grams : \A now \in Times :
           C11_Step(u, parse_number(text, FALSE), text, now)]_vars

\* 150 g of the 89.0 kcal product were recorded: 133 kcal.
C11_Witness ==
    /\ reply.kind = "food_recorded"
    /\ reply.detail = <<150, 133>>
    /\ user_database[1].calories_eaten = 133
    /\ fsm_state[1] = NoState

\* The fields of a profile /train has no business with.
BesidesTrain(profile) ==
    [profile EXCEPT !.calories_burned = 0, !.workout_timeline = <<>>,
                    !.water_target = 0]

TrainReplies == {"train_recorded", "train_invalid", "train_usage"}

C12_Step(u) ==
    /\ (reply'.kind \in TrainReplies
            /\ u \in DOMAIN user_database /\ u \in DOMAIN user_database') =>
           user_database'[u].water_target >= user_database[u].water_target
    /\ reply'.kind = "train_recorded" =>
        /\ u \in DOMAIN user_database
        /\ reply'.detail[2] > 0 /\ reply'.detail[2] <= 300
        /\ reply'.detail[3] =
               calculate_burned(reply'.detail[1], reply'.detail[2],
                                user_database[u].weight)
        /\ user_database'[u].calories_burned =
               user_database[u].calories_burned + reply'.detail[3]
        /\ Len(user_database'[u].workout_timeline) =
               Len(user_database[u].workout_timeline) + 1
        /\ SubSeq(user_database'[u].workout_timeline, 1,
                  Len(user_database[u].workout_timeline)) =
               user_database[u].workout_timeline
        /\ Last(user_database'[u].workout_timeline)[2] =
               user_database'[u].calories_burned
        /\ user_database'[u].water_target =
               user_database[u].water_target + 200 * (reply'.detail[2] \div 30)
        /\ BesidesTrain(user_database'[u]) = BesidesTrain(user_database[u])

\* C12: a recorded /train of minutes of (0,300] adds calculate_burned(kind,
\* minutes, weight) to the calories burned, appends one entry of the new
\* total to the workout timeline and raises the water target by
\* 200 * floor(minutes / 30); no /train lowers the water target; water
\* consumed, calories eaten and the other two timelines are unchanged.
C12_RecordExercise == [][\A u \in Users : C12_Step(u)]_vars

\* A second 30-minute run of a 75 kg user: 750 kcal, 400 ml of bonus.
C12_Witness ==
    /\ reply.kind = "train_recorded"
    /\ reply.detail[3] = 375
    /\ user_database[1].calories_burned = 750
    /\ user_database[1].water_target = NormOf(user_database[1]) + 400

\* The fields /reset sets.
BesidesLedger(profile) ==
    [profile EXCEPT !.water_consumed = 0, !.calories_eaten = 0,
                    !.calories_burned = 0, !.water_timeline = <<>>,
                    !.calorie_timeline = <<>>, !.workout_timeline = <<>>]

ZeroSeed(timeline) == Len(timeline) = 1 /\ timeline[1][2] = 0

C13_Step(u) ==
    reply'.kind = "reset_done" =>
        /\ u \in DOMAIN user_database
        /\ user_database'[u].water_consumed = 0
        /\ user_database'[u].calories_eaten = 0
        /\ user_database'[u].calories_burned = 0
        /\ ZeroSeed(user_database'[u].water_timeline)
        /\ ZeroSeed(user_database'[u].calorie_timeline)
        /\ ZeroSeed(user_database'[u].workout_timeline)
        /\ BesidesLedger(user_database'[u]) = BesidesLedger(user_database[u])

\* C13: /reset on an existing profile sets the three counters to 0, leaves
\* each timeline with exactly one entry, of value 0, and leaves the water
\* target (exercise bonuses included), the calorie target and the static
\* attributes unchanged.
C13_ResetDay == [][\A u \in Users : C13_Step(u)]_vars

\* A reset after two runs: the 400 ml of bonus stay in the water target.
C13_Witness ==
    /\ reply.kind = "reset_done"
    /\ user_database[1].calories_burned = 0
    /\ ZeroSeed(user_database[1].workout_timeline)
    /\ user_database[1].water_target = NormOf(user_database[1]) + 400

Refusals == {"drink_invalid", "train_invalid", "grams_invalid"}

C14_Step(u) ==
    /\ reply'.kind \in Refusals =>
           /\ u \in DOMAIN user_database
           /\ UNCHANGED <<user_database, fsm_state, fsm_data>>
    /\ reply'.kind = "grams_invalid" =>
           /\ fsm_state'[u] = WaitingGrams
           /\ "kcal_per_100g" \in DOMAIN fsm_data'[u]
    /\ reply'.kind = "drink_added" =>
           reply'.detail[1] > 0 /\ reply'.detail[1] <= 3000
    /\ reply'.kind = "train_recorded" =>
           reply'.detail[2] > 0 /\ reply'.detail[2] <= 300
    /\ reply'.kind = "food_recorded" =>
           reply'.detail[1] > 0 /\ reply'.detail[1] <= 2000

\* C14: a /drink, a /train or a grams answer that is refused (amount not of
\* (0,3000] or unparsable, minutes not of (0,300], grams not of (0,2000])
\* leaves every field of the profile unchanged, and the refused grams
\* answer leaves the user awaiting grams with the same pending entry;
\* whatever is recorded is within its range.
C14_RefusalKeepsLedger == [][\A u \in Users : C14_Step(u)]_vars

\* Grams were refused after an earlier record: the entry is still pending.
C14_Witness ==
    /\ reply.kind = "grams_invalid"
    /\ fsm_state[1] = WaitingGrams
    /\ "kcal_per_100g" \in DOMAIN fsm_data[1]
    /\ user_database[1].calories_eaten = 133

\* The query /eat passes to the lookup.
QueryOf(text) == strip(split1(text)[2])

C15_Step(u, text, response) ==
    (/\ cmd_eat(u, text, response)
     /\ HasProfile(u)
     /\ Len(split1(text)) >= 2) =>
        IF search_food_calories(QueryOf(text), response) = None
        THEN /\ reply'.kind = "food_not_found"
             /\ UNCHANGED <<user_database, fsm_state, fsm_data, food_cache>>
        ELSE /\ reply'.kind = "food_found"
             /\ fsm_state'[u] = WaitingGrams
             /\ fsm_data'[u]["kcal_per_100g"] =
                    search_food_calories(QueryOf(text), response).kcal_per_100g

\* C15: a /eat whose lookup fails leaves the profile and the state of the
\* user unchanged and remembers nothing, and every /eat ends as the lookup
\* of that very request ends: found when it resolves the query, whatever
\* earlier requests of the same query did.
C15_LookupDecides ==
    [][\A u \in Users : \A text \in Texts.eat : \A response \in Edges.food :
           C15_Step(u, text, response)]_vars

\* The failure of a lookup is kept in the cache of search_food_calories.
C15_Witness ==
    /\ reply.kind = "food_not_found"
    /\ U("banana") \in DOMAIN food_cache
    /\ food_cache[U("banana")] = None
    /\ fsm_state[1] = NoState

\* The fixed answer of a ledger or report command to a user with no
\* profile: nothing changes.
SetUpFirst ==
    /\ reply' = Reply("require_profile")
    /\ UNCHANGED <<user_database, fsm_state, fsm_data, food_cache>>

C16_Step(u) ==
    ~HasProfile(u) =>
        /\ \A text \in Texts.drink, now \in Times :
               cmd_drink(u, text, now) => SetUpFirst
        /\ \A text \in Texts.eat, response \in FoodResponses :
               cmd_eat(u, text, response) => SetUpFirst
        /\ \A text \in Texts.train, now \in Times :
               cmd_train(u, text, now) => SetUpFirst
        /\ \A text \in Texts.status : cmd_status(u, text) => SetUpFirst
        /\ \A text \in Texts.charts : cmd_charts(u, text) => SetUpFirst
        /\ \A text \in Texts.tips : cmd_tips(u, text) => SetUpFirst
        /\ \A text \in Texts.reset, now \in Times :
               cmd_reset(u, text, now) => SetUpFirst

\* C16: for a user with no profile each of /drink, /eat, /train, /status,
\* /charts, /tips and /reset gives the fixed set-up-first answer, creates no
\* profile and leaves the state of the user as it is; /eat looks nothing up.
C16_NoProfile == [][\A u \in Users : C16_Step(u)]_vars

\* The answer was given in the middle of a setup conversation.
C16_Witness ==
    /\ reply.kind = "require_profile"
    /\ user_database = <<>>
    /\ fsm_state[1] = "gender_input"
    /\ "height" \in DOMAIN fsm_data[1]

\* C17: both percentages of every /status message, the water percent and
\* the calorie percent of the balance eaten minus burned, lie in [0,100].
C17_PercentInRange ==
    reply.kind = "status" =>
        /\ reply.detail.water_percent \in 0 .. 100
        /\ reply.detail.calorie_percent \in 0 .. 100

\* /status after a run and no food: the balance and its percent are negative.
C17_Witness ==
    /\ reply.kind = "status"
    /\ user_database[1].calories_burned > user_database[1].calories_eaten
    /\ reply.detail.calorie_balance < 0
    /\ reply.detail.calorie_percent < 0

\* The timelines of at least two points, in the order of the charts.
Drawable(profile) ==
    SelectSeq(<<"water", "calories", "burned">>,
              LAMBDA name :
                  \/ name = "water" /\ Len(profile.water_timeline) >= 2
                  \/ name = "calories" /\ Len(profile.calorie_timeline) >= 2
                  \/ name = "burned" /\ Len(profile.workout_timeline) >= 2)

\* C18: /charts answers that the data are insufficient exactly when all
\* three timelines have fewer than 2 points, and otherwise sends one chart
\* for each timeline of at least 2 points and no other.
C18_Charts ==
    \A u \in DOMAIN user_database :
        /\ reply.kind = "charts_insufficient" => Drawable(user_database[u]) = <<>>
        /\ reply.kind = "charts" =>
               /\ reply.detail # <<>>
               /\ reply.detail = Drawable(user_database[u])

\* A day of exercise only: /charts sends no chart of the burned calories.
C18_Witness ==
    /\ reply.kind = "charts_insufficient"
    /\ Len(user_database[1].workout_timeline) = 3
    /\ Len(user_database[1].water_timeline) = 1
    /\ Len(user_database[1].calorie_timeline) = 1

NonDecreasing(timeline) ==
    \A i \in 1 .. Len(timeline) - 1 : timeline[i][2] <= timeline[i + 1][2]

C19_Step(u) ==
    (/\ u \in DOMAIN user_database
     /\ u \in DOMAIN user_database'
     /\ reply'.kind \notin {"reset_done", "profile_ready"}) =>
        /\ user_database'[u].water_consumed >= user_database[u].water_consumed
        /\ user_database'[u].calories_eaten >= user_database[u].calories_eaten
        /\ user_database'[u].calories_burned >= user_database[u].calories_burned
        /\ NonDecreasing(user_database'[u].water_timeline)
        /\ NonDecreasing(user_database'[u].calorie_timeline)
        /\ NonDecreasing(user_database'[u].workout_timeline)

\* C19: between two resets or finalizes of a user no step lowers the water
\* consumed, the calories eaten or the calories burned, whatever the food
\* lookup returned, and the values along each timeline never decrease.
C19_Monotone == [][\A u \in Users : C19_Step(u)]_vars

\* 150 g of a product the lookup gave -89 kcal/100 g for.
C19_Witness ==
    /\ reply.kind = "food_recorded"
    /\ reply.detail = <<150, -133>>
    /\ user_database[1].calories_eaten = -133
    /\ ~NonDecreasing(user_database[1].calorie_timeline)

\* The calorie target and the static attributes of a profile.
Static(profile) ==
    <<profile.calorie_target, profile.weight, profile.height, profile.age,
      profile.gender, profile.activity_minutes, profile.city,
      profile.temperature>>

C20_Step(u) ==
    (u \in DOMAIN user_database /\ u \in DOMAIN user_database') =>
        /\ Static(user_database'[u]) # Static(user_database[u]) =>
               reply'.kind = "profile_ready"
        /\ user_database'[u].water_target # user_database[u].water_target =>
               reply'.kind \in {"profile_ready", "train_recorded"}

\* C20: once a profile is installed, its calorie target and its static
\* attributes are changed by no step other than a later finalize, and its
\* water target by no step other than a recorded /train or a later finalize.
C20_TargetsFrame == [][\A u \in Users : C20_Step(u)]_vars

\* Water, food and exercise were recorded and the day reset under a manual
\* calorie target: the target is as installed, the water target 200 ml up.
C20_Witness ==
    /\ reply.kind = "drink_added"
    /\ user_database[1].calorie_target = 2200
    /\ user_database[1].water_target = NormOf(user_database[1]) + 200
    /\ user_database[1].calories_eaten = 133
    /\ user_database[1].calories_burned = 0

\* floor((10 * weight + 6.25 * height - 5 * age + s) * c) of a stored profile,
\* with s = 5 for male and -161 otherwise and c = 1.2, 1.375 or 1.55 by the
\* band of the activity minutes.
FormulaFloor(profile) ==
    ((1000 * profile.weight.num
        + (625 * profile.height - 500 * profile.age
             + (IF profile.gender = "male" THEN 500 ELSE -16100))
            * profile.weight.den)
       * (IF profile.activity_minutes < 30 THEN 1200
          ELSE IF profile.activity_minutes <= 59 THEN 1375
          ELSE 1550))
        \div (100000 * profile.weight.den)

\* The profile of the worked example: 75 kg, 175 cm, 25 years, male, 20 min.
IsExample(profile) ==
    /\ profile.weight = PyFloat(75, 1)
    /\ profile.height = 175
    /\ profile.age = 25
    /\ profile.gender = "male"
    /\ profile.activity_minutes = 20

\* A step of finalize that installs a profile: after a typed manual norm the
\* target is that norm; after a declined one it is the floor of the formula,
\* and the worked example gets the given target.
C21_Step(u, example) ==
    /\ \A text \in Samples.calories, temp \in Temperatures, now \in Times :
           process_manual_calories(u, text, temp, now) /\ reply'.kind = "profile_ready"
               => user_database'[u].calorie_target = parse_number(text, FALSE).num
    /\ fsm_state[u] = "manual_calories_choice" /\ reply'.kind = "profile_ready"
           => /\ user_database'[u].calorie_target = FormulaFloor(user_database'[u])
              /\ IsExample(user_database'[u])
                     => user_database'[u].calorie_target = example

NamedGender(text) ==
    IF MatchesAny(text, {<<1078, 1077, 1085>>, U("female")}) THEN "female"
    ELSE IF MatchesAny(text, {<<1084, 1091, 1078>>, U("male")}) THEN "male"
    ELSE ""

C22_Step(u) ==
    /\ \A text \in Samples.gender :
           process_gender(u, text) /\ NamedGender(text) # ""
               => /\ "gender" \in DOMAIN fsm_data'[u]
                  /\ fsm_data'[u]["gender"] = NamedGender(text)
    /\ fsm_state[u] = "manual_calories_choice" /\ reply'.kind = "profile_ready"
           => /\ user_database'[u].gender = fsm_data[u]["gender"]
              /\ user_database'[u].calorie_target = FormulaFloor(user_database'[u])

\* C22: in gender_input an answer holding жен or female, in any letter case,
\* records the gender female and one holding муж or male records male; the
\* target finalize computes uses -161 for the recorded female and +5 for the
\* recorded male.
C22_GenderAnswer == [][\A u \in Users : C22_Step(u)]_vars

\* A profile finalized as female, with the target of the -161 adjustment.
C22_Witness ==
    \E u \in Users :
        /\ HasProfile(u)
        /\ reply.kind = "profile_ready"
        /\ user_database[u].gender = "female"
        /\ user_database[u].activity_minutes = 30
        /\ user_database[u].calorie_target = FormulaFloor(user_database[u])

\* A bar of exactly ten cells, floor(percent / 10) of them filled.
TenCells(bar, percent) ==
    /\ bar[1] + bar[2] = 10
    /\ bar[1] = percent \div 10

\* C24: each progress bar of a /status message has exactly 10 cells, of which
\* floor(percent / 10) are filled, for every percent /status computes, also
\* when the calories burned exceed the calories eaten.
C24_TenSegments ==
    reply.kind = "status" =>
        /\ TenCells(reply.detail.water_bar, reply.detail.water_percent)
        /\ TenCells(reply.detail.calorie_bar, reply.detail.calorie_percent)

\* /status after more was burned than eaten: the calorie bar has no filled
\* cell and eleven empty ones.
C24_Witness ==
    /\ reply.kind = "status"
    /\ user_database[1].calories_burned > user_database[1].calories_eaten
    /\ reply.detail.calorie_bar = <<0, 11>>

\* C26: whenever a user is awaiting grams between two messages, the user has
\* a profile and the session holds a pending entry with a product name and
\* an energy value per 100 g, so the grams step finds the entry it reads.
C26_PendingEntry ==
    \A u \in Users :
        fsm_state[u] = WaitingGrams =>
            /\ HasProfile(u)
            /\ {"product_name", "kcal_per_100g"} \subseteq DOMAIN fsm_data[u]
            /\ fsm_data[u]["product_name"] \in Seq(Nat)
            /\ fsm_data[u]["kcal_per_100g"] # None

\* A user awaiting grams whose last message was a /eat without a product:
\* the entry of the earlier /eat is still pending.
C26_Witness ==
    /\ fsm_state[1] = WaitingGrams
    /\ reply.kind = "eat_usage"
    /\ "kcal_per_100g" \in DOMAIN fsm_data[1]

\* The kinds MET_VALUES lists: бег, run, ходьба, walk, велосипед, cycling,
\* плавание, swimming, зал, gym, йога, yoga.
ListedKinds == UNION {entry[1] : entry \in MET_VALUES}

\* Two exercises recorded one after the other for the same user.  When the
\* kinds are equal up to letter case and the second lasts k times as long as
\* the first, it burns k times as much (k = 1: the letter case changes
\* nothing); an unlisted kind burns floor(7.0 * weight * minutes / 60).
C23_Step(u) ==
    reply'.kind = "train_recorded" /\ HasProfile(u) =>
        /\ (/\ reply.kind = "train_recorded"
            /\ lower(reply'.detail[1]) = lower(reply.detail[1])
            /\ reply'.detail[2] % reply.detail[2] = 0)
               => reply'.detail[3] = (reply'.detail[2] \div reply.detail[2]) * reply.detail[3]
        /\ lower(reply'.detail[1]) \notin ListedKinds
               => reply'.detail[3] =
                      (7 * user_database[u].weight.num * reply'.detail[2])
                          \div (60 * user_database[u].weight.den)

\* C23: the calories an exercise burns are linear in its minutes for a
\* fixed kind and weight (k*m minutes burn k times what m minutes burn, for
\* k*m <= 300), the kind is matched whatever its letter case, and an
\* unrecognized kind counts with MET 7.0.
C23_LinearBurn == [][\A u \in Users : C23_Step(u)]_vars

\* A run of two minutes recorded after a run of one minute by a user of
\* 75 kg: 12 kcal, then 25.
C23_Witness ==
    /\ reply.kind = "train_recorded"
    /\ reply.detail[2] = 2
    /\ reply.detail[3] = 25
    /\ user_database[1].workout_timeline = <<<<"12:00", 0>>, <<"12:00", 12>>, <<"12:00", 37>>>>

\* C25: one pending food entry yields at most one addition to the calories
\* eaten, also when the handlers of two messages of a user interleave at
\* their awaits: a grams submission that adds to the ledger consumes the
\* entry, so no grams submission that adds follows it directly, without a
\* /eat resolved in between.
C25_OneAddition ==
    [][\A u \in Users :
           HasProfile(u) /\ reply.kind = "food_recorded" /\ reply'.kind = "food_recorded"
               => Len(user_database'[u].calorie_timeline)
                      <= Len(user_database[u].calorie_timeline)]_vars

\* Two grams submissions have added 133 kcal each for one /eat, and both
\* handlers still wait in their answer.
C25_Witness ==
    /\ suspended[1].process_food_grams = 2
    /\ reply.kind = "food_recorded"
    /\ user_database[1].calorie_timeline = <<<<"12:00", 0>>, <<"12:00", 133>>, <<"12:00", 266>>>>

====
